---- MODULE Spec2Model ----
(***************************************************************************)
(* Model of investment_agent/agent.py: the thirteen tool functions the     *)
(* agent registers, the module-level Vertex AI Search configuration they   *)
(* read, and the upstream providers (Alpha Vantage, Discovery Engine) as   *)
(* nondeterministic responders.                                            *)
(*                                                                         *)
(* Conventions                                                             *)
(*  - A Python call completes either by returning a value or by raising:   *)
(*    a completion is [kind |-> "return", value, reqs] or                  *)
(*    [kind |-> "raise", exc, reqs]; reqs is the sequence of upstream      *)
(*    requests the call issued, in order.                                  *)
(*  - Python scalars that can share a dictionary slot are tagged:          *)
(*    Str(s) is a str, Flt(h) a float held in hundredths (h = 100 * x      *)
(*    after round(x, 2)), PyInt(n) an int.                                   *)
(*  - A ticker is a sequence of one-character strings, so that             *)
(*    str.upper() is a computation and not the identity.                   *)
(*  - An f-string message is [fmt |-> template, <placeholder> |-> value].  *)
(***************************************************************************)
EXTENDS Integers, Sequences, FiniteSets, TLC

VARIABLES
    VERTEX_PROJECT_ID,        \* os.getenv('GCP_PROJECT_ID')
    VERTEX_LOCATION,          \* os.getenv('VERTEX_LOCATION', 'us')
    VERTEX_DATA_STORE_ID,     \* os.getenv('VERTEX_DATA_STORE_ID')
    vertex_search_available,  \* module-level availability flag
    op,                       \* name of the tool invoked last ("none" at start)
    args,                     \* its arguments
    resps,                    \* the upstream responses it received, in order
    ret,                      \* its completion as seen by the caller
    requests                  \* the upstream requests it issued, in order

vars == <<VERTEX_PROJECT_ID, VERTEX_LOCATION, VERTEX_DATA_STORE_ID,
          vertex_search_available, op, args, resps, ret, requests>>

config == <<VERTEX_PROJECT_ID, VERTEX_LOCATION, VERTEX_DATA_STORE_ID,
            vertex_search_available>>

----------------------------------------------------------------------------
(* Bounds of the model *)

MaxTickerLen == 2      \* tickers have 1..MaxTickerLen characters
MaxRows == 3           \* a daily price series has 0..MaxRows rows
MaxDeviations == 1     \* fields of an upstream row that differ from the base row
MaxMatches == 6        \* documents of the data store that match a query

----------------------------------------------------------------------------
(* Python values *)

Str(s) == [str |-> s]
Flt(h) == [float |-> h]
PyInt(n) == [int |-> n]
None == [none |-> TRUE]
NA == Str("N/A")

\* dict.get(key, default) / Series.get(key, default)
Get(d, key, default) == IF key \in DOMAIN d THEN d[key] ELSE default

Return(v, q) == [kind |-> "return", value |-> v, reqs |-> q]
Raise(e, q) == [kind |-> "raise", exc |-> e, reqs |-> q]

\* try: <c>  except Exception as e: return handler[str(e)]
Catch(c, handler) ==
    IF c.kind = "raise" THEN Return(handler[c.exc], c.reqs) ELSE c

Min(a, b) == IF a <= b THEN a ELSE b

RECURSIVE SeqSum(_)
SeqSum(s) == IF s = <<>> THEN 0 ELSE Head(s) + SeqSum(Tail(s))

SeqMax(s) == CHOOSE x \in {s[i] : i \in DOMAIN s} : \A j \in DOMAIN s : s[j] <= x
SeqMin(s) == CHOOSE x \in {s[i] : i \in DOMAIN s} : \A j \in DOMAIN s : x <= s[j]

\* round(n / d, 0) for d > 0, ties to even (Python 3 round)
RoundDiv(n, d) ==
    LET q == n \div d
        r == n % d
    IN  IF 2 * r < d THEN q
        ELSE IF 2 * r > d THEN q + 1
        ELSE IF q % 2 = 0 THEN q ELSE q + 1

\* round(n / d, 2), as a float in hundredths
Round2(n, d) == Flt(RoundDiv(100 * n, d))

\* round((n / d) * 100, 2), as a float in hundredths
RoundPct(n, d) == Flt(RoundDiv(10000 * n, d))

----------------------------------------------------------------------------
(* Tickers and str.upper() *)

Letters == {"a", "A"}

UpperChar(c) == IF c = "a" THEN "A" ELSE c

\* ticker.upper()
Upper(ticker) == [i \in DOMAIN ticker |-> UpperChar(ticker[i])]

SeqsUpTo(S, n) == UNION {[1..k -> S] : k \in 0..n}

Tickers == SeqsUpTo(Letters, MaxTickerLen) \ {<<>>}

----------------------------------------------------------------------------
(* Upstream responses.  A request to a provider either raises (transport,  *)
(* auth, rate limit) or answers with a table of rows, possibly empty.      *)

Exceptions == {"rate limit exceeded"}

Failed(e) == [kind |-> "raise", exc |-> e]
Rows(rows) == [kind |-> "rows", rows |-> rows]

Failures == {Failed(e) : e \in Exceptions} \cup {Rows(<<>>)}

RECURSIVE SubsetsUpTo(_, _)
SubsetsUpTo(S, n) ==
    IF n = 0 THEN {{}}
    ELSE LET prev == SubsetsUpTo(S, n - 1)
         IN  prev \cup {T \cup {k} : T \in prev, k \in S}

\* the rows that differ from base in at most MaxDeviations of the keys in
\* keys: those keys are either missing from the row or hold the value alt
Deviating(base, keys, alts) ==
    {base}
    \cup {[k \in DOMAIN base \ T |-> base[k]] : T \in SubsetsUpTo(keys, MaxDeviations)}
    \cup {[k \in DOMAIN base |-> IF k \in T THEN Str(a) ELSE base[k]] :
            T \in SubsetsUpTo(keys, MaxDeviations), a \in alts}

Closes == {0, 90, 100, 110}

PriceRow(c) == [close |-> c, high |-> c + 5, low |-> c, volume |-> 1000 + c]

PriceSeries == {[i \in DOMAIN s |-> PriceRow(s[i])] : s \in SeqsUpTo(Closes, MaxRows)}

PriceResponses == {Failed(e) : e \in Exceptions} \cup {Rows(s) : s \in PriceSeries}

----------------------------------------------------------------------------
(* get_stock_price *)

Request(api, symbol) == [api |-> api, symbol |-> symbol]

\* get_stock_price taking the percentages of the latest close
get_stock_price_body_of_latest(ticker, resp) ==
    LET q == <<Request("get_daily", ticker)>>
    IN  IF resp.kind = "raise" THEN Raise(resp.exc, q)
        ELSE LET data == resp.rows IN
        IF Len(data) = 0
        THEN Return([status |-> "error",
                     message |-> [fmt |-> "No price data found for {ticker}. Please verify the ticker symbol.",
                                  ticker |-> ticker]], q)
        ELSE IF Len(data) < 2
        THEN Raise("single positional indexer is out-of-bounds", q)
        ELSE LET latest_close == data[1].close
                 previous_close == data[2].close
                 month_ago_close == data[Len(data)].close
                 delta_1day == latest_close - previous_close
                 delta_1month == latest_close - month_ago_close
             IN  IF latest_close = 0
                 THEN Raise("float division by zero", q)
                 ELSE Return(
                     [status |-> "success",
                      ticker |-> Upper(ticker),
                      current_price |-> Flt(100 * latest_close),
                      change_1day |-> Flt(100 * delta_1day),
                      change_1day_percent |-> RoundPct(delta_1day, latest_close),
                      change_1month |-> Flt(100 * delta_1month),
                      change_1month_percent |-> RoundPct(delta_1month, latest_close),
                      high_recent |-> Flt(100 * SeqMax([i \in DOMAIN data |-> data[i].high])),
                      low_recent |-> Flt(100 * SeqMin([i \in DOMAIN data |-> data[i].low])),
                      average_volume |->
                          PyInt(SeqSum([i \in DOMAIN data |-> data[i].volume]) \div Len(data))],
                     q)

get_stock_price_body(ticker, resp) ==
    LET q == <<Request("get_daily", ticker)>>
    IN  IF resp.kind = "raise" THEN Raise(resp.exc, q)
        ELSE LET data == resp.rows IN
        IF Len(data) = 0
        THEN Return([status |-> "error",
                     message |-> [fmt |-> "No price data found for {ticker}. Please verify the ticker symbol.",
                                  ticker |-> ticker]], q)
        ELSE IF Len(data) < 2
        THEN Raise("single positional indexer is out-of-bounds", q)
        ELSE LET latest_close == data[1].close
                 previous_close == data[2].close
                 month_ago_close == data[Len(data)].close
                 delta_1day == latest_close - previous_close
                 delta_1month == latest_close - month_ago_close
             IN  IF previous_close = 0 \/ month_ago_close = 0
                 THEN Raise("float division by zero", q)
                 ELSE Return(
                     [status |-> "success",
                      ticker |-> Upper(ticker),
                      current_price |-> Flt(100 * latest_close),
                      change_1day |-> Flt(100 * delta_1day),
                      change_1day_percent |-> RoundPct(delta_1day, previous_close),
                      change_1month |-> Flt(100 * delta_1month),
                      change_1month_percent |-> RoundPct(delta_1month, month_ago_close),
                      high_recent |-> Flt(100 * SeqMax([i \in DOMAIN data |-> data[i].high])),
                      low_recent |-> Flt(100 * SeqMin([i \in DOMAIN data |-> data[i].low])),
                      average_volume |->
                          PyInt(SeqSum([i \in DOMAIN data |-> data[i].volume]) \div Len(data))],
                     q)

get_stock_price_except(ticker, e) ==
    [status |-> "error",
     message |-> [fmt |-> "Error fetching price data for {ticker}: {str(e)}. If using demo API key, note that it has limited tickers.",
                  ticker |-> ticker, e |-> e]]

\* get_stock_price without its try/except
get_stock_price_uncaught(ticker, resp) == get_stock_price_body(ticker, resp)

get_stock_price(ticker, resp) ==
    Catch(get_stock_price_body(ticker, resp),
          [e \in STRING |-> get_stock_price_except(ticker, e)])

----------------------------------------------------------------------------
(* The four FundamentalData adapters.  Alpha Vantage answers with string   *)
(* values; a figure it does not have is the string "None" or a missing     *)
(* key.                                                                    *)

OverviewBase ==
    [Name |-> Str("Apple Inc"), Sector |-> Str("TECHNOLOGY"),
     Industry |-> Str("ELECTRONIC COMPUTERS"),
     MarketCapitalization |-> Str("3000000"), PERatio |-> Str("28.5"),
     ForwardPE |-> Str("26.1"), PEGRatio |-> Str("2.1"),
     PriceToBookRatio |-> Str("45.2"), DividendYield |-> Str("0.005"),
     Beta |-> Str("1.2"), ProfitMargin |-> Str("0.25"),
     QuarterlyRevenueGrowthYOY |-> Str("0.06"), EPS |-> Str("6.4"),
     AnalystTargetPrice |-> Str("210")]
    @@ ("52WeekHigh" :> Str("199.6")) @@ ("52WeekLow" :> Str("124.2"))

IncomeBase ==
    [fiscalDateEnding |-> Str("2023-09-30"), totalRevenue |-> Str("1000"),
     grossProfit |-> Str("400"), operatingIncome |-> Str("150"),
     netIncome |-> Str("100"), ebitda |-> Str("180"), eps |-> Str("6.4"),
     researchAndDevelopment |-> Str("30")]

BalanceBase ==
    [fiscalDateEnding |-> Str("2023-09-30"), totalAssets |-> Str("1000"),
     totalLiabilities |-> Str("400"), totalShareholderEquity |-> Str("500"),
     totalCurrentAssets |-> Str("500"), totalCurrentLiabilities |-> Str("250"),
     cashAndCashEquivalentsAtCarryingValue |-> Str("100"),
     longTermDebt |-> Str("150"), shortTermDebt |-> Str("30")]

CashFlowBase ==
    [fiscalDateEnding |-> Str("2023-09-30"), operatingCashflow |-> Str("180"),
     capitalExpenditures |-> Str("30"), dividendPayout |-> Str("10"),
     changeInCashAndCashEquivalents |-> Str("-100")]

OverviewRows == Deviating(OverviewBase, DOMAIN OverviewBase, {})
IncomeRows == Deviating(IncomeBase, DOMAIN IncomeBase, {"None"})
BalanceRows == Deviating(BalanceBase, DOMAIN BalanceBase, {})
CashFlowRows == Deviating(CashFlowBase, DOMAIN CashFlowBase, {})

TableResponses(rows) == Failures \cup {Rows(<<r>>) : r \in rows}

\* {"status": "success", "ticker": ticker.upper(), out: row.get(src, 'N/A'), ...}
\* for the pairs <<out, src>> of fields
\* the adapters' normalisation with 0 in place of the sentinel
Normalized_zero_default(ticker, row, fields) ==
    [k \in {"status", "ticker"} \cup {f[1] : f \in fields} |->
        IF k = "status" THEN "success"
        ELSE IF k = "ticker" THEN Upper(ticker)
        ELSE Get(row, (CHOOSE f \in fields : f[1] = k)[2], PyInt(0))]

Normalized(ticker, row, fields) ==
    [k \in {"status", "ticker"} \cup {f[1] : f \in fields} |->
        IF k = "status" THEN "success"
        ELSE IF k = "ticker" THEN Upper(ticker)
        ELSE Get(row, (CHOOSE f \in fields : f[1] = k)[2], NA)]

\* the common shape of the four adapters: one request, an error envelope
\* for an empty table, the first row normalized otherwise
\* an adapter that asks the provider once more after a failure
Adapter_retrying(ticker, resp, api, fields, nodata) ==
    LET q == <<Request(api, ticker)>>
    IN  IF resp.kind = "raise" THEN Raise(resp.exc, q \o q)
        ELSE IF Len(resp.rows) = 0
        THEN Return([status |-> "error",
                     message |-> [fmt |-> nodata, ticker |-> ticker]], q \o q)
        ELSE Return(Normalized(ticker, resp.rows[1], fields), q)

Adapter(ticker, resp, api, fields, nodata) ==
    LET q == <<Request(api, ticker)>>
    IN  IF resp.kind = "raise" THEN Raise(resp.exc, q)
        ELSE IF Len(resp.rows) = 0
        THEN Return([status |-> "error",
                     message |-> [fmt |-> nodata, ticker |-> ticker]], q)
        ELSE Return(Normalized(ticker, resp.rows[1], fields), q)

ErrorFor(fmt, ticker, e) ==
    [status |-> "error", message |-> [fmt |-> fmt, ticker |-> ticker, e |-> e]]

get_stock_fundamentals_fields ==
    {<<"company_name", "Name">>, <<"sector", "Sector">>, <<"industry", "Industry">>,
     <<"market_cap", "MarketCapitalization">>, <<"pe_ratio", "PERatio">>,
     <<"forward_pe", "ForwardPE">>, <<"peg_ratio", "PEGRatio">>,
     <<"price_to_book", "PriceToBookRatio">>, <<"dividend_yield", "DividendYield">>,
     <<"beta", "Beta">>, <<"profit_margin", "ProfitMargin">>,
     <<"revenue_growth", "QuarterlyRevenueGrowthYOY">>, <<"eps", "EPS">>,
     <<"analyst_target", "AnalystTargetPrice">>,
     <<"52_week_high", "52WeekHigh">>, <<"52_week_low", "52WeekLow">>}

get_stock_fundamentals(ticker, resp) ==
    Catch(Adapter(ticker, resp, "get_company_overview", get_stock_fundamentals_fields,
                  "No fundamental data found for {ticker}."),
          [e \in STRING |-> ErrorFor("Error fetching fundamentals for {ticker}: {str(e)}. If using demo API key, upgrade at alphavantage.co",
                              ticker, e)])

get_income_statement_fields ==
    {<<"fiscal_date", "fiscalDateEnding">>, <<"total_revenue", "totalRevenue">>,
     <<"gross_profit", "grossProfit">>, <<"operating_income", "operatingIncome">>,
     <<"net_income", "netIncome">>, <<"ebitda", "ebitda">>, <<"eps", "eps">>,
     <<"research_development", "researchAndDevelopment">>}

get_income_statement(ticker, resp) ==
    Catch(Adapter(ticker, resp, "get_income_statement_annual", get_income_statement_fields,
                  "No income statement data found for {ticker}."),
          [e \in STRING |-> ErrorFor("Error fetching income statement for {ticker}: {str(e)}",
                              ticker, e)])

get_balance_sheet_fields ==
    {<<"fiscal_date", "fiscalDateEnding">>, <<"total_assets", "totalAssets">>,
     <<"total_liabilities", "totalLiabilities">>,
     <<"total_shareholder_equity", "totalShareholderEquity">>,
     <<"current_assets", "totalCurrentAssets">>,
     <<"current_liabilities", "totalCurrentLiabilities">>,
     <<"cash_and_equivalents", "cashAndCashEquivalentsAtCarryingValue">>,
     <<"long_term_debt", "longTermDebt">>, <<"short_term_debt", "shortTermDebt">>}

get_balance_sheet(ticker, resp) ==
    Catch(Adapter(ticker, resp, "get_balance_sheet_annual", get_balance_sheet_fields,
                  "No balance sheet data found for {ticker}."),
          [e \in STRING |-> ErrorFor("Error fetching balance sheet for {ticker}: {str(e)}",
                              ticker, e)])

get_cash_flow_fields ==
    {<<"fiscal_date", "fiscalDateEnding">>,
     <<"operating_cash_flow", "operatingCashflow">>,
     <<"capital_expenditures", "capitalExpenditures">>,
     <<"free_cash_flow", "operatingCashflow">>,
     <<"dividends_paid", "dividendPayout">>,
     <<"change_in_cash", "changeInCashAndCashEquivalents">>}

get_cash_flow(ticker, resp) ==
    Catch(Adapter(ticker, resp, "get_cash_flow_annual", get_cash_flow_fields,
                  "No cash flow data found for {ticker}."),
          [e \in STRING |-> ErrorFor("Error fetching cash flow for {ticker}: {str(e)}",
                              ticker, e)])

----------------------------------------------------------------------------
(* Module-level configuration of Vertex AI Search, and the search tool *)

\* Python truthiness of an os.getenv result
Truthy(v) == v # None /\ v # Str("")

\* the value of vertex_search_available after the module body has run:
\* client_raises tells whether SearchServiceClient(...) raised at start
vertex_search_init(project, data_store, client_raises) ==
    IF Truthy(project) /\ Truthy(data_store)
    THEN IF client_raises THEN FALSE ELSE TRUE
    ELSE FALSE

Queries == {"moat", "valuation"}

\* derived_struct_data of the documents of the data store
DocFull ==
    [title |-> "Measuring the Moat",
     snippets |-> <<[snippet |-> "first excerpt"], [snippet |-> "second excerpt"]>>,
     link |-> "gs://research/moat.pdf"]
DocBare == [snippets |-> <<>>]
DocNoSnippet ==
    [title |-> "Retail Formula", snippets |-> <<[snippet_status |-> "NO_SNIPPET_AVAILABLE"]>>,
     link |-> "gs://research/retail.pdf"]

Docs == {DocFull, DocBare, DocNoSnippet}

\* what the search backend may do with one call of the tool: the client
\* constructor raises, the search request raises, or the request is
\* answered from the ranked list of the documents that match the query
SearchResponses ==
    {[kind |-> "client_raise", exc |-> e] : e \in Exceptions}
    \cup {Failed(e) : e \in Exceptions}
    \cup {[kind |-> "matches", matches |-> m] : m \in SeqsUpTo(Docs, MaxMatches)}

page_size == 5

\* SearchService.Search: the first page of the ranked matches, of at most
\* page_size results
Search(matches, size) == SubSeq(matches, 1, Min(size, Len(matches)))

SearchHit(doc_data) ==
    [title |-> Get(doc_data, "title", "Untitled"),
     snippet |-> IF "snippets" \in DOMAIN doc_data /\ Len(doc_data.snippets) > 0
                 THEN Get(doc_data.snippets[1], "snippet", "")
                 ELSE "",
     link |-> Get(doc_data, "link", "")]

\* the search request asking for pages of ten
search_request_ten(query) ==
    [api |-> "search", query |-> query, page_size |-> 2 * page_size,
     project |-> VERTEX_PROJECT_ID, location |-> VERTEX_LOCATION,
     data_store |-> VERTEX_DATA_STORE_ID, serving_config |-> "default_search"]

search_request(query) ==
    [api |-> "search", query |-> query, page_size |-> page_size,
     project |-> VERTEX_PROJECT_ID, location |-> VERTEX_LOCATION,
     data_store |-> VERTEX_DATA_STORE_ID, serving_config |-> "default_search"]

search_client == [api |-> "SearchServiceClient", location |-> VERTEX_LOCATION]

\* the envelope for an empty result list reporting an error
search_results_empty_is_error(query, results) ==
    IF Len(results) = 0
    THEN [status |-> "error",
          message |-> [fmt |-> "No results found for this query."]]
    ELSE [status |-> "success", query |-> query,
          results_count |-> Len(results), results |-> results]

search_results(query, results) ==
    IF Len(results) = 0
    THEN [status |-> "success", query |-> query,
          message |-> [fmt |-> "No results found for this query."],
          results |-> <<>>]
    ELSE [status |-> "success", query |-> query,
          results_count |-> Len(results), results |-> results]

search_investment_research_body(query, resp) ==
    IF resp.kind = "client_raise" THEN Raise(resp.exc, <<search_client>>)
    ELSE LET request == search_request(query)
             q == <<search_client, request>>
         IN  IF resp.kind = "raise" THEN Raise(resp.exc, q)
             ELSE LET response == Search(resp.matches, request.page_size)
                      results == [i \in DOMAIN response |-> SearchHit(response[i])]
                  IN  Return(search_results(query, results), q)

search_investment_research_except(e) ==
    [status |-> "error",
     message |-> [fmt |-> "Error searching investment research: {str(e)}", e |-> e]]

\* search_investment_research without the availability gate
search_investment_research_ungated(query, resp) ==
    Catch(search_investment_research_body(query, resp), [e \in STRING |-> search_investment_research_except(e)])

search_investment_research(query, resp) ==
    IF ~vertex_search_available
    THEN Return([status |-> "info",
                 message |-> [fmt |-> "Vertex AI Search is not available. The agent will continue without research context grounding. This feature requires Google Cloud authentication which is configured for local development only."]],
                <<>>)
    ELSE Catch(search_investment_research_body(query, resp), [e \in STRING |-> search_investment_research_except(e)])

----------------------------------------------------------------------------
(* Composition of calls inside one try block *)

Empty == [k \in {} |-> None]

RECURSIVE AllReqs(_)
AllReqs(calls) ==
    IF Len(calls) = 0 THEN <<>> ELSE Head(calls).reqs \o AllReqs(Tail(calls))

\* calls made one after another: the first that raises ends the block, and
\* the calls after it are not made; otherwise the block returns value
Block(calls, value) ==
    LET raising == {i \in DOMAIN calls : calls[i].kind = "raise"}
    IN  IF raising = {} THEN Return(value, AllReqs(calls))
        ELSE LET k == CHOOSE i \in raising : \A j \in raising : i <= j
             IN  Raise(calls[k].exc, AllReqs(SubSeq(calls, 1, k)))

\* envelope.get('status') == 'error'
IsError(envelope) == "status" \in DOMAIN envelope /\ envelope.status = "error"

----------------------------------------------------------------------------
(* compare_stocks, get_stock_info *)

compare_stocks_try(ticker1, ticker2, r) ==
    LET stock1_price == get_stock_price(ticker1, r[1])
        stock1_fundamentals == get_stock_fundamentals(ticker1, r[2])
        stock2_price == get_stock_price(ticker2, r[3])
        stock2_fundamentals == get_stock_fundamentals(ticker2, r[4])
        \* a dict display: a later item with an equal key replaces the earlier
        comparison ==
            [k \in {Upper(ticker1), Upper(ticker2)} |->
                IF k = Upper(ticker2)
                THEN [price_data |-> stock2_price.value,
                      fundamentals |-> stock2_fundamentals.value]
                ELSE [price_data |-> stock1_price.value,
                      fundamentals |-> stock1_fundamentals.value]]
    IN  Block(<<stock1_price, stock1_fundamentals, stock2_price, stock2_fundamentals>>,
              [status |-> "success", comparison |-> comparison])

compare_stocks_except(e) ==
    [status |-> "error", message |-> [fmt |-> "Error comparing stocks: {str(e)}", e |-> e]]

\* compare_stocks giving up when a fetch for either stock failed
compare_stocks_all_or_nothing(ticker1, ticker2, r) ==
    LET c == Catch(compare_stocks_try(ticker1, ticker2, r), [e \in STRING |-> compare_stocks_except(e)])
    IN  IF \E k \in DOMAIN c.value.comparison :
              \/ IsError(c.value.comparison[k].price_data)
              \/ IsError(c.value.comparison[k].fundamentals)
        THEN Return(compare_stocks_except("data unavailable"), c.reqs)
        ELSE c

compare_stocks(ticker1, ticker2, r) ==
    Catch(compare_stocks_try(ticker1, ticker2, r), [e \in STRING |-> compare_stocks_except(e)])

get_stock_info(ticker, r) ==
    LET price_data == get_stock_price(ticker, r[1])
        fund_data == get_stock_fundamentals(ticker, r[2])
    IN  Catch(Block(<<price_data, fund_data>>,
                    [status |-> "success", ticker |-> Upper(ticker),
                     price_info |-> price_data.value,
                     company_info |-> fund_data.value]),
              [e \in STRING |-> ErrorFor("Error fetching stock info for {ticker}: {str(e)}",
                                  ticker, e)])

----------------------------------------------------------------------------
(* calculate_valuation_metrics, generate_investment_report *)

\* calculate_valuation_metrics checking only the fundamentals' status
calculate_valuation_metrics_fundamentals_only(ticker, r) ==
    LET fundamentals == get_stock_fundamentals(ticker, r[1])
        price_data == get_stock_price(ticker, r[2])
        f == fundamentals.value
        p == price_data.value
    IN  Return(IF IsError(f)
               THEN [status |-> "error",
                     message |-> [fmt |-> "Unable to calculate metrics - fundamental or price data unavailable"]]
               ELSE [status |-> "success",
                     ticker |-> Upper(ticker),
                     current_price |-> Get(p, "current_price", PyInt(0)),
                     pe_ratio |-> Get(f, "pe_ratio", NA),
                     market_cap |-> Get(f, "market_cap", NA),
                     earnings_per_share |-> Get(f, "eps", NA),
                     price_to_book |-> Get(f, "price_to_book", NA),
                     peg_ratio |-> Get(f, "peg_ratio", NA),
                     dividend_yield |-> Get(f, "dividend_yield", NA),
                     analyst_target |-> Get(f, "analyst_target", NA)],
               fundamentals.reqs \o price_data.reqs)

calculate_valuation_metrics(ticker, r) ==
    LET fundamentals == get_stock_fundamentals(ticker, r[1])
        price_data == get_stock_price(ticker, r[2])
        f == fundamentals.value
        p == price_data.value
    IN  Catch(Block(<<fundamentals, price_data>>,
                IF IsError(f) \/ IsError(p)
                THEN [status |-> "error",
                      message |-> [fmt |-> "Unable to calculate metrics - fundamental or price data unavailable"]]
                ELSE [status |-> "success",
                      ticker |-> Upper(ticker),
                      current_price |-> Get(p, "current_price", PyInt(0)),
                      pe_ratio |-> Get(f, "pe_ratio", NA),
                      market_cap |-> Get(f, "market_cap", NA),
                      earnings_per_share |-> Get(f, "eps", NA),
                      price_to_book |-> Get(f, "price_to_book", NA),
                      peg_ratio |-> Get(f, "peg_ratio", NA),
                      dividend_yield |-> Get(f, "dividend_yield", NA),
                      analyst_target |-> Get(f, "analyst_target", NA)]),
              [e \in STRING |-> [status |-> "error",
                          message |-> [fmt |-> "Error calculating valuation metrics: {str(e)}",
                                       e |-> e]]])

\* generate_investment_report giving up at the first section that failed
generate_investment_report_try_until_failure(ticker, r) ==
    LET calls == <<get_stock_price(ticker, r[1]),
                   get_stock_fundamentals(ticker, r[2]),
                   get_income_statement(ticker, r[3]),
                   get_balance_sheet(ticker, r[4]),
                   get_cash_flow(ticker, r[5]),
                   calculate_valuation_metrics(ticker, SubSeq(r, 6, 7))>>
        failed == {i \in DOMAIN calls : IsError(calls[i].value)}
    IN  IF failed = {}
        THEN Return([status |-> "success", ticker |-> Upper(ticker),
                     report_date |-> "Current",
                     sections |-> [price_performance |-> calls[1].value,
                                   company_overview |-> calls[2].value,
                                   income_statement |-> calls[3].value,
                                   balance_sheet |-> calls[4].value,
                                   cash_flow |-> calls[5].value,
                                   valuation_analysis |-> calls[6].value],
                     report_type |-> "Comprehensive Investment Research Report",
                     note |-> "This automated report provides real-time financial data and analysis."],
                    AllReqs(calls))
        ELSE LET k == CHOOSE i \in failed : \A j \in failed : i <= j
             IN  Return(calls[k].value, AllReqs(SubSeq(calls, 1, k)))

generate_investment_report_try(ticker, r) ==
    LET price == get_stock_price(ticker, r[1])
        fundamentals == get_stock_fundamentals(ticker, r[2])
        income == get_income_statement(ticker, r[3])
        balance == get_balance_sheet(ticker, r[4])
        cash_flow == get_cash_flow(ticker, r[5])
        valuation == calculate_valuation_metrics(ticker, SubSeq(r, 6, 7))
    IN  Block(<<price, fundamentals, income, balance, cash_flow, valuation>>,
                [status |-> "success",
                 ticker |-> Upper(ticker),
                 report_date |-> "Current",
                 sections |-> [price_performance |-> price.value,
                               company_overview |-> fundamentals.value,
                               income_statement |-> income.value,
                               balance_sheet |-> balance.value,
                               cash_flow |-> cash_flow.value,
                               valuation_analysis |-> valuation.value],
                 report_type |-> "Comprehensive Investment Research Report",
                 note |-> "This automated report provides real-time financial data and analysis."])

generate_investment_report_except(e) ==
    [status |-> "error",
     message |-> [fmt |-> "Error generating investment report: {str(e)}", e |-> e]]

\* generate_investment_report with the checklist's abort on failed fundamentals
generate_investment_report_aborting(ticker, r) ==
    LET c == Catch(generate_investment_report_try(ticker, r), [e \in STRING |-> generate_investment_report_except(e)])
    IN  IF IsError(c.value.sections.company_overview)
        THEN Return([status |-> "error",
                     message |-> [fmt |-> "Unable to generate report - fundamental data unavailable"]],
                    c.reqs)
        ELSE c

generate_investment_report(ticker, r) ==
    Catch(generate_investment_report_try(ticker, r), [e \in STRING |-> generate_investment_report_except(e)])

----------------------------------------------------------------------------
(* calculate_financial_ratios *)

\* float(s) of the strings the statements hold, in hundredths; float raises
\* ValueError on any other string
FloatTable ==
    [s \in {"0", "-100", "30", "100", "150", "180", "250", "400", "500", "1000"} |->
        CASE s = "0" -> 0 [] s = "-100" -> -10000 [] s = "30" -> 3000
          [] s = "100" -> 10000 [] s = "150" -> 15000 [] s = "180" -> 18000
          [] s = "250" -> 25000 [] s = "400" -> 40000 [] s = "500" -> 50000
          [] s = "1000" -> 100000]

CanFloat(v) ==
    \/ "int" \in DOMAIN v
    \/ "float" \in DOMAIN v
    \/ "str" \in DOMAIN v /\ v.str \in DOMAIN FloatTable

Float(v) ==
    IF "int" \in DOMAIN v THEN 100 * v.int
    ELSE IF "float" \in DOMAIN v THEN v.float
    ELSE FloatTable[v.str]

insufficient == [note |-> Str("Insufficient data for calculation")]

\* liquidity_ratios with the quick ratio not net of cash
liquidity_ratios_quick_with_cash(balance) ==
    LET a == Get(balance, "current_assets", PyInt(0))
        l == Get(balance, "current_liabilities", PyInt(1))
        c == Get(balance, "cash_and_equivalents", PyInt(0))
    IN  IF ~(CanFloat(a) /\ CanFloat(l) /\ CanFloat(c)) THEN insufficient
        ELSE IF Float(l) > 0
             THEN [current_ratio |-> Round2(Float(a), Float(l)),
                   quick_ratio |-> Round2(Float(a), Float(l)),
                   cash_ratio |-> Round2(Float(c), Float(l))]
             ELSE Empty

liquidity_ratios(balance) ==
    LET a == Get(balance, "current_assets", PyInt(0))
        l == Get(balance, "current_liabilities", PyInt(1))
        c == Get(balance, "cash_and_equivalents", PyInt(0))
    IN  IF ~(CanFloat(a) /\ CanFloat(l) /\ CanFloat(c)) THEN insufficient
        ELSE LET current_assets == Float(a)
                 current_liabilities == Float(l)
                 cash == Float(c)
             IN  IF current_liabilities > 0
                 THEN [current_ratio |-> Round2(current_assets, current_liabilities),
                       quick_ratio |-> Round2(current_assets - cash, current_liabilities),
                       cash_ratio |-> Round2(cash, current_liabilities)]
                 ELSE Empty

profitability_ratios(income) ==
    LET r == Get(income, "total_revenue", PyInt(1))
        n == Get(income, "net_income", PyInt(0))
        g == Get(income, "gross_profit", PyInt(0))
        o == Get(income, "operating_income", PyInt(0))
    IN  IF ~(CanFloat(r) /\ CanFloat(n) /\ CanFloat(g) /\ CanFloat(o)) THEN insufficient
        ELSE LET revenue == Float(r)
                 net_income == Float(n)
                 gross_profit == Float(g)
                 operating_income == Float(o)
             IN  IF revenue > 0
                 THEN [net_profit_margin |-> RoundPct(net_income, revenue),
                       gross_profit_margin |-> RoundPct(gross_profit, revenue),
                       operating_margin |-> RoundPct(operating_income, revenue)]
                 ELSE Empty

leverage_ratios(balance) ==
    LET a == Get(balance, "total_assets", PyInt(1))
        l == Get(balance, "total_liabilities", PyInt(0))
        e == Get(balance, "total_shareholder_equity", PyInt(1))
        d == Get(balance, "long_term_debt", PyInt(0))
    IN  IF ~(CanFloat(a) /\ CanFloat(l) /\ CanFloat(e) /\ CanFloat(d)) THEN insufficient
        ELSE LET total_assets == Float(a)
                 total_liabilities == Float(l)
                 equity == Float(e)
             IN  (IF total_assets > 0
                  THEN [debt_to_assets |-> Round2(total_liabilities, total_assets)]
                  ELSE Empty)
                 @@
                 (IF equity > 0
                  THEN [debt_to_equity |-> Round2(total_liabilities, equity),
                        equity_multiplier |-> Round2(total_assets, equity)]
                  ELSE Empty)

\* calculate_financial_ratios reporting an error when a group could not be
\* computed
calculate_financial_ratios_blocked_is_error(ticker, r) ==
    LET balance == get_balance_sheet(ticker, r[1])
        income == get_income_statement(ticker, r[2])
        computed(group) == DOMAIN group # {} /\ group # insufficient
    IN  Return(IF IsError(balance.value) \/ IsError(income.value)
               THEN [status |-> "error",
                     message |-> [fmt |-> "Unable to calculate ratios - financial statement data unavailable"]]
               ELSE IF /\ computed(liquidity_ratios(balance.value))
                       /\ computed(profitability_ratios(income.value))
                       /\ computed(leverage_ratios(balance.value))
               THEN [status |-> "success",
                     ticker |-> Upper(ticker),
                     liquidity_ratios |-> liquidity_ratios(balance.value),
                     profitability_ratios |-> profitability_ratios(income.value),
                     leverage_ratios |-> leverage_ratios(balance.value)]
               ELSE [status |-> "error",
                     message |-> [fmt |-> "Unable to calculate ratios - insufficient data"]],
               balance.reqs \o income.reqs)

calculate_financial_ratios(ticker, r) ==
    LET balance == get_balance_sheet(ticker, r[1])
        income == get_income_statement(ticker, r[2])
    IN  Catch(Block(<<balance, income>>,
                IF IsError(balance.value) \/ IsError(income.value)
                THEN [status |-> "error",
                      message |-> [fmt |-> "Unable to calculate ratios - financial statement data unavailable"]]
                ELSE [status |-> "success",
                      ticker |-> Upper(ticker),
                      liquidity_ratios |-> liquidity_ratios(balance.value),
                      profitability_ratios |-> profitability_ratios(income.value),
                      leverage_ratios |-> leverage_ratios(balance.value)]),
              [e \in STRING |-> [status |-> "error",
                          message |-> [fmt |-> "Error calculating financial ratios: {str(e)}",
                                       e |-> e]]])

----------------------------------------------------------------------------
(* analyze_growth_trends, investment_checklist_screen *)

\* analyze_growth_trends giving up when the price fetch failed as well
analyze_growth_trends_needs_price(ticker, r) ==
    LET fundamentals == get_stock_fundamentals(ticker, r[1])
        price == get_stock_price(ticker, r[2])
        f == fundamentals.value
        p == price.value
    IN  Return(IF IsError(f) \/ IsError(p)
               THEN [status |-> "error",
                     message |-> [fmt |-> "Unable to analyze growth - fundamental data unavailable"]]
               ELSE [status |-> "success",
                     ticker |-> Upper(ticker),
                     revenue_growth |-> Get(f, "revenue_growth", NA),
                     price_momentum |->
                         ("1_day_change" :> Get(p, "change_1day_percent", NA))
                         @@ ("1_month_change" :> Get(p, "change_1month_percent", NA)),
                     valuation_metrics |-> [peg_ratio |-> Get(f, "peg_ratio", NA),
                                            forward_pe |-> Get(f, "forward_pe", NA)]],
               fundamentals.reqs \o price.reqs)

analyze_growth_trends(ticker, r) ==
    LET fundamentals == get_stock_fundamentals(ticker, r[1])
        price == get_stock_price(ticker, r[2])
        f == fundamentals.value
        p == price.value
    IN  Catch(Block(<<fundamentals, price>>,
                IF IsError(f)
                THEN [status |-> "error",
                      message |-> [fmt |-> "Unable to analyze growth - fundamental data unavailable"]]
                ELSE [status |-> "success",
                      ticker |-> Upper(ticker),
                      revenue_growth |-> Get(f, "revenue_growth", NA),
                      price_momentum |->
                          ("1_day_change" :> Get(p, "change_1day_percent", NA))
                          @@ ("1_month_change" :> Get(p, "change_1month_percent", NA)),
                      valuation_metrics |-> [peg_ratio |-> Get(f, "peg_ratio", NA),
                                             forward_pe |-> Get(f, "forward_pe", NA)]]),
              [e \in STRING |-> [status |-> "error",
                          message |-> [fmt |-> "Error analyzing growth trends: {str(e)}",
                                       e |-> e]]])

\* a checklist that lists only the ratios and cash-flow figures it obtained
investment_checklist_screen_only_obtained(ticker, r) ==
    LET fundamentals == get_stock_fundamentals(ticker, r[1])
        balance == get_balance_sheet(ticker, r[2])
        income == get_income_statement(ticker, r[3])
        cash_flow == get_cash_flow(ticker, r[4])
        ratios == calculate_financial_ratios(ticker, SubSeq(r, 5, 6))
        valuation == calculate_valuation_metrics(ticker, SubSeq(r, 7, 8))
        f == fundamentals.value
        c == cash_flow.value
        obtained(group, keys) ==
            LET g == Get(ratios.value, group, Empty)
            IN  [k \in DOMAIN g \cap keys |-> g[k]]
    IN  Return(IF IsError(f)
               THEN [status |-> "error",
                     message |-> [fmt |-> "Unable to complete checklist - fundamental data unavailable"]]
               ELSE [status |-> "success",
                     ticker |-> Upper(ticker),
                     company_name |-> Get(f, "company_name", NA),
                     business_quality |->
                         obtained("profitability_ratios",
                                  {"net_profit_margin", "gross_profit_margin",
                                   "operating_margin"})
                         @@ [market_cap |-> Get(f, "market_cap", NA),
                             sector |-> Get(f, "sector", NA),
                             industry |-> Get(f, "industry", NA)],
                     financial_health |->
                         obtained("leverage_ratios",
                                  {"debt_to_equity", "debt_to_assets", "equity_multiplier"})
                         @@ obtained("liquidity_ratios",
                                     {"current_ratio", "quick_ratio", "cash_ratio"})
                         @@ [k \in DOMAIN c \cap {"operating_cash_flow", "free_cash_flow",
                                                  "capital_expenditures"} |-> c[k]],
                     valuation_metrics |->
                         [peg_ratio |-> Get(f, "peg_ratio", NA),
                          pe_ratio |-> Get(f, "pe_ratio", NA),
                          forward_pe |-> Get(f, "forward_pe", NA),
                          price_to_book |-> Get(f, "price_to_book", NA),
                          analyst_target |-> Get(f, "analyst_target", NA)]
                         @@ ("52_week_high" :> Get(f, "52_week_high", NA))
                         @@ ("52_week_low" :> Get(f, "52_week_low", NA)),
                     risk_indicators |->
                         [beta |-> Get(f, "beta", NA),
                          dividend_yield |-> Get(f, "dividend_yield", NA),
                          revenue_growth_yoy |-> Get(f, "revenue_growth", NA),
                          earnings_per_share |-> Get(f, "eps", NA)]],
               AllReqs(<<fundamentals, balance, income, cash_flow, ratios, valuation>>))

investment_checklist_screen(ticker, r) ==
    LET fundamentals == get_stock_fundamentals(ticker, r[1])
        balance == get_balance_sheet(ticker, r[2])
        income == get_income_statement(ticker, r[3])
        cash_flow == get_cash_flow(ticker, r[4])
        ratios == calculate_financial_ratios(ticker, SubSeq(r, 5, 6))
        valuation == calculate_valuation_metrics(ticker, SubSeq(r, 7, 8))
        f == fundamentals.value
        c == cash_flow.value
        profitability == Get(ratios.value, "profitability_ratios", Empty)
        leverage == Get(ratios.value, "leverage_ratios", Empty)
        liquidity == Get(ratios.value, "liquidity_ratios", Empty)
    IN  Catch(Block(<<fundamentals, balance, income, cash_flow, ratios, valuation>>,
                IF IsError(f)
                THEN [status |-> "error",
                      message |-> [fmt |-> "Unable to complete checklist - fundamental data unavailable"]]
                ELSE [status |-> "success",
                      ticker |-> Upper(ticker),
                      company_name |-> Get(f, "company_name", NA),
                      business_quality |->
                          [net_profit_margin |-> Get(profitability, "net_profit_margin", NA),
                           gross_profit_margin |-> Get(profitability, "gross_profit_margin", NA),
                           operating_margin |-> Get(profitability, "operating_margin", NA),
                           market_cap |-> Get(f, "market_cap", NA),
                           sector |-> Get(f, "sector", NA),
                           industry |-> Get(f, "industry", NA)],
                      financial_health |->
                          [debt_to_equity |-> Get(leverage, "debt_to_equity", NA),
                           debt_to_assets |-> Get(leverage, "debt_to_assets", NA),
                           equity_multiplier |-> Get(leverage, "equity_multiplier", NA),
                           current_ratio |-> Get(liquidity, "current_ratio", NA),
                           quick_ratio |-> Get(liquidity, "quick_ratio", NA),
                           cash_ratio |-> Get(liquidity, "cash_ratio", NA),
                           operating_cash_flow |-> Get(c, "operating_cash_flow", NA),
                           free_cash_flow |-> Get(c, "free_cash_flow", NA),
                           capital_expenditures |-> Get(c, "capital_expenditures", NA)],
                      valuation_metrics |->
                          [peg_ratio |-> Get(f, "peg_ratio", NA),
                           pe_ratio |-> Get(f, "pe_ratio", NA),
                           forward_pe |-> Get(f, "forward_pe", NA),
                           price_to_book |-> Get(f, "price_to_book", NA),
                           analyst_target |-> Get(f, "analyst_target", NA)]
                          @@ ("52_week_high" :> Get(f, "52_week_high", NA))
                          @@ ("52_week_low" :> Get(f, "52_week_low", NA)),
                      risk_indicators |->
                          [beta |-> Get(f, "beta", NA),
                           dividend_yield |-> Get(f, "dividend_yield", NA),
                           revenue_growth_yoy |-> Get(f, "revenue_growth", NA),
                           earnings_per_share |-> Get(f, "eps", NA)]]),
              [e \in STRING |-> [status |-> "error",
                          message |-> [fmt |-> "Error running investment checklist: {str(e)}",
                                       e |-> e]]])

----------------------------------------------------------------------------
(* The upstream responses the composite tools are run against *)

ThreeCloses == Rows(<<PriceRow(110), PriceRow(100), PriceRow(90)>>)

\* an overview without the figures Alpha Vantage has for few companies
OverviewSparse ==
    [k \in {"Name", "Sector", "Industry", "MarketCapitalization", "EPS"} |-> OverviewBase[k]]

\* the keys of the statements that the ratios read
BalanceRatioKeys ==
    {"totalAssets", "totalLiabilities", "totalShareholderEquity", "totalCurrentAssets",
     "totalCurrentLiabilities", "cashAndCashEquivalentsAtCarryingValue", "longTermDebt"}
IncomeRatioKeys == {"totalRevenue", "grossProfit", "operatingIncome", "netIncome"}

SomePriceResponses == Failures \cup {ThreeCloses}
SomeOverviewResponses == TableResponses({OverviewBase, OverviewSparse})
RatioBalanceResponses ==
    TableResponses(Deviating(BalanceBase, BalanceRatioKeys, {"0", "-100"}))
RatioIncomeResponses ==
    TableResponses(Deviating(IncomeBase, IncomeRatioKeys, {"0", "-100"}))

\* the answers of one provider state to the requests a composite tool
\* makes: the requests in failing are answered by failure, the others by
\* the table the provider holds for that API
Answers(apis, tables, failing, failure) ==
    [i \in DOMAIN apis |-> IF i \in failing THEN failure ELSE tables[apis[i]]]

\* provider states: what Alpha Vantage holds for the ticker asked about
Tables ==
    {[price |-> ThreeCloses, overview |-> Rows(<<OverviewBase>>),
      income |-> Rows(<<IncomeBase>>), balance |-> Rows(<<BalanceBase>>),
      cash_flow |-> Rows(<<CashFlowBase>>)],
     [price |-> ThreeCloses, overview |-> Rows(<<OverviewSparse>>),
      income |-> Rows(<<[IncomeBase EXCEPT !.totalRevenue = Str("0")]>>),
      balance |-> Rows(<<[BalanceBase EXCEPT !.totalShareholderEquity = Str("-100")]>>),
      cash_flow |-> Rows(<<CashFlowBase>>)],
     [price |-> ThreeCloses, overview |-> Rows(<<OverviewBase>>),
      income |-> Rows(<<IncomeBase>>),
      balance |-> Rows(<<[k \in DOMAIN BalanceBase \ {"totalCurrentLiabilities"} |->
                            BalanceBase[k]]>>),
      cash_flow |-> Rows(<<[k \in {"fiscalDateEnding"} |-> CashFlowBase[k]]>>)]}

\* the tickers the composite tools with many requests are run for
OneLetterTickers == {t \in Tickers : Len(t) = 1}

compare_apis == <<"price", "overview", "price", "overview">>
report_apis == <<"price", "overview", "income", "balance", "cash_flow", "overview", "price">>
checklist_apis ==
    <<"overview", "balance", "income", "cash_flow", "balance", "income", "overview", "price">>

----------------------------------------------------------------------------
(* The state machine *)

Init ==
    /\ \E project \in {None, Str("my-project")},
          data_store \in {None, Str("research-library")},
          client_raises \in BOOLEAN :
            /\ VERTEX_PROJECT_ID = project
            /\ VERTEX_DATA_STORE_ID = data_store
            /\ vertex_search_available =
                   vertex_search_init(project, data_store, client_raises)
    /\ VERTEX_LOCATION = Str("us")
    /\ op = "none"
    /\ args = <<>>
    /\ resps = <<>>
    /\ ret = None
    /\ requests = <<>>

\* no tool call is in progress: the runtime issues the next call only after
\* the previous one returned
Idle == op = "none"

\* the agent runtime calls tool name with arguments a; the call consumes the
\* upstream responses r and completes as c
\* a runtime in which a search that ended in error switches the search off
Invoke_disabling_search(name, a, r, c) ==
    /\ op' = name
    /\ args' = a
    /\ resps' = IF Len(c.reqs) = 0 THEN <<>> ELSE r
    /\ ret' = IF c.kind = "raise" THEN [kind |-> "raise", exc |-> c.exc]
              ELSE [kind |-> "return", value |-> c.value]
    /\ requests' = c.reqs
    /\ vertex_search_available' =
           IF name = "search_investment_research" /\ c.kind = "return"
                  /\ c.value.status = "error"
           THEN FALSE ELSE vertex_search_available
    /\ UNCHANGED <<VERTEX_PROJECT_ID, VERTEX_LOCATION, VERTEX_DATA_STORE_ID>>

Invoke(name, a, r, c) ==
    /\ op' = name
    /\ args' = a
    /\ resps' = IF Len(c.reqs) = 0 THEN <<>> ELSE r
    /\ ret' = IF c.kind = "raise" THEN [kind |-> "raise", exc |-> c.exc]
              ELSE [kind |-> "return", value |-> c.value]
    /\ requests' = c.reqs
    /\ UNCHANGED config

\* the agent runtime takes the completion of the call; nothing of the call
\* outlives it
RuntimeResumes ==
    /\ op # "none"
    /\ op' = "none"
    /\ args' = <<>>
    /\ resps' = <<>>
    /\ ret' = None
    /\ requests' = <<>>
    /\ UNCHANGED config

SearchInvestmentResearch ==
    /\ Idle
    /\ \E query \in Queries, r \in SearchResponses :
           Invoke("search_investment_research", <<query>>, <<r>>,
                  search_investment_research(query, r))

GetStockPrice ==
    /\ Idle
    /\ \E t \in Tickers, r \in PriceResponses :
           Invoke("get_stock_price", <<t>>, <<r>>, get_stock_price(t, r))

GetStockFundamentals ==
    /\ Idle
    /\ \E t \in Tickers, r \in TableResponses(OverviewRows) :
           Invoke("get_stock_fundamentals", <<t>>, <<r>>, get_stock_fundamentals(t, r))

GetIncomeStatement ==
    /\ Idle
    /\ \E t \in Tickers, r \in TableResponses(IncomeRows) :
           Invoke("get_income_statement", <<t>>, <<r>>, get_income_statement(t, r))

GetBalanceSheet ==
    /\ Idle
    /\ \E t \in Tickers, r \in TableResponses(BalanceRows) :
           Invoke("get_balance_sheet", <<t>>, <<r>>, get_balance_sheet(t, r))

GetCashFlow ==
    /\ Idle
    /\ \E t \in Tickers, r \in TableResponses(CashFlowRows) :
           Invoke("get_cash_flow", <<t>>, <<r>>, get_cash_flow(t, r))

CompareStocks ==
    /\ Idle
    /\ \E t1 \in Tickers, t2 \in Tickers, tables \in Tables,
          failing \in SUBSET (1..4), failure \in Failures :
           LET r == Answers(compare_apis, tables, failing, failure)
           IN  Invoke("compare_stocks", <<t1, t2>>, r, compare_stocks(t1, t2, r))

GetStockInfo ==
    /\ Idle
    /\ \E t \in Tickers, p \in SomePriceResponses, f \in SomeOverviewResponses :
           Invoke("get_stock_info", <<t>>, <<p, f>>, get_stock_info(t, <<p, f>>))

CalculateValuationMetrics ==
    /\ Idle
    /\ \E t \in Tickers, f \in SomeOverviewResponses, p \in SomePriceResponses :
           Invoke("calculate_valuation_metrics", <<t>>, <<f, p>>,
                  calculate_valuation_metrics(t, <<f, p>>))

GenerateInvestmentReport ==
    /\ Idle
    /\ \E t \in OneLetterTickers, tables \in Tables, failing \in SUBSET (1..7), failure \in Failures :
           LET r == Answers(report_apis, tables, failing, failure)
           IN  Invoke("generate_investment_report", <<t>>, r, generate_investment_report(t, r))

CalculateFinancialRatios ==
    /\ Idle
    /\ \E t \in OneLetterTickers, b \in RatioBalanceResponses, i \in RatioIncomeResponses :
           Invoke("calculate_financial_ratios", <<t>>, <<b, i>>,
                  calculate_financial_ratios(t, <<b, i>>))

AnalyzeGrowthTrends ==
    /\ Idle
    /\ \E t \in Tickers, f \in SomeOverviewResponses, p \in SomePriceResponses :
           Invoke("analyze_growth_trends", <<t>>, <<f, p>>, analyze_growth_trends(t, <<f, p>>))

InvestmentChecklistScreen ==
    /\ Idle
    /\ \E t \in OneLetterTickers, tables \in Tables, failing \in SUBSET (1..8), failure \in Failures :
           LET r == Answers(checklist_apis, tables, failing, failure)
           IN  Invoke("investment_checklist_screen", <<t>>, r, investment_checklist_screen(t, r))

Next ==
    \/ CompareStocks
    \/ GetStockInfo
    \/ CalculateValuationMetrics
    \/ GenerateInvestmentReport
    \/ CalculateFinancialRatios
    \/ AnalyzeGrowthTrends
    \/ InvestmentChecklistScreen
    \/ SearchInvestmentResearch
    \/ GetStockPrice
    \/ GetStockFundamentals
    \/ GetIncomeStatement
    \/ GetBalanceSheet
    \/ GetCashFlow
    \/ RuntimeResumes

Spec == Init /\ [][Next]_vars

----------------------------------------------------------------------------
(* The tool registry: what tool name returns for the arguments a and the   *)
(* upstream responses r                                                    *)

Tool(name, a, r) ==
    CASE name = "search_investment_research" -> search_investment_research(a[1], r[1])
      [] name = "investment_checklist_screen" -> investment_checklist_screen(a[1], r)
      [] name = "get_stock_price" -> get_stock_price(a[1], r[1])
      [] name = "get_stock_fundamentals" -> get_stock_fundamentals(a[1], r[1])
      [] name = "compare_stocks" -> compare_stocks(a[1], a[2], r)
      [] name = "get_stock_info" -> get_stock_info(a[1], r)
      [] name = "get_income_statement" -> get_income_statement(a[1], r[1])
      [] name = "get_balance_sheet" -> get_balance_sheet(a[1], r[1])
      [] name = "get_cash_flow" -> get_cash_flow(a[1], r[1])
      [] name = "calculate_valuation_metrics" -> calculate_valuation_metrics(a[1], r)
      [] name = "generate_investment_report" -> generate_investment_report(a[1], r)
      [] name = "calculate_financial_ratios" -> calculate_financial_ratios(a[1], r)
      [] name = "analyze_growth_trends" -> analyze_growth_trends(a[1], r)

----------------------------------------------------------------------------
(* Properties *)

Called(name) == op = name

\* an upstream request that raised or came back without rows
FetchFailed(resp) == resp.kind = "raise" \/ Len(resp.rows) = 0

\* C1: every one of the 13 tools, whatever its arguments and whatever the
\* providers do (rows, no rows, an exception), returns one envelope whose
\* status is success, error or info; no exception reaches the caller.
C1_EveryToolReturnsAnEnvelope ==
    op # "none" =>
        /\ ret.kind = "return"
        /\ "status" \in DOMAIN ret.value
        /\ ret.value.status \in {"success", "error", "info"}

\* get_stock_price raised IndexError inside (a one-row series) and returned
\* an error envelope
C1_Witness ==
    /\ Called("get_stock_price")
    /\ resps[1].kind = "rows" /\ Len(resps[1].rows) = 1
    /\ ret.kind = "return" /\ ret.value.status = "error"
    /\ ret.value.message.e = "single positional indexer is out-of-bounds"

\* a statement field that is zero or is no number
ZeroOrAbsent(v) == ~CanFloat(v) \/ Float(v) = 0

BothStatementsFetched ==
    /\ Called("calculate_financial_ratios")
    /\ ~FetchFailed(resps[1]) /\ ~FetchFailed(resps[2])

\* C2: in calculate_financial_ratios with both statements fetched, zero or
\* absent current_liabilities makes liquidity_ratios exactly the note, and
\* zero or absent total_revenue makes profitability_ratios exactly the note.
C2_ZeroOrAbsentDenominatorGivesNote ==
    BothStatementsFetched =>
        LET balance == get_balance_sheet(args[1], resps[1]).value
            income == get_income_statement(args[1], resps[2]).value
        IN  /\ ZeroOrAbsent(balance.current_liabilities) =>
                   ret.value.liquidity_ratios = insufficient
            /\ ZeroOrAbsent(income.total_revenue) =>
                   ret.value.profitability_ratios = insufficient

AllOrNothing(group, ratios) == DOMAIN group = ratios \/ DOMAIN group = {"note"}

\* C3: in every success envelope of calculate_financial_ratios each of the
\* three groups holds either all three of its ratios or only the note.
C3_GroupsAreAllOrNothing ==
    (Called("calculate_financial_ratios") /\ ret.value.status = "success") =>
        /\ AllOrNothing(ret.value.liquidity_ratios,
                        {"current_ratio", "quick_ratio", "cash_ratio"})
        /\ AllOrNothing(ret.value.profitability_ratios,
                        {"net_profit_margin", "gross_profit_margin", "operating_margin"})
        /\ AllOrNothing(ret.value.leverage_ratios,
                        {"debt_to_assets", "debt_to_equity", "equity_multiplier"})

\* what compare_stocks fetched for its i-th identifier
FetchedFor(i) ==
    [price_data |-> get_stock_price(args[i], resps[2 * i - 1]).value,
     fundamentals |-> get_stock_fundamentals(args[i], resps[2 * i]).value]

HasEntryFor(i) ==
    /\ Upper(args[i]) \in DOMAIN ret.value.comparison
    /\ ret.value.comparison[Upper(args[i])] = FetchedFor(i)

\* C4 as claimed: for every pair of identifiers compare_stocks returns an
\* entry for each of the two, keyed by its uppercase form and holding what
\* was fetched for that identifier.
C4_EveryPairHasBothEntries ==
    Called("compare_stocks") =>
        /\ ret.value.status = "success"
        /\ HasEntryFor(1)
        /\ HasEntryFor(2)

\* C4 as amended: the comparison is keyed by the uppercase forms; the second
\* identifier's entry always holds its fetches, and the first's does when
\* the two uppercase forms differ.
C4_DistinctPairsHaveBothEntries ==
    Called("compare_stocks") =>
        /\ ret.value.status = "success"
        /\ DOMAIN ret.value.comparison = {Upper(args[1]), Upper(args[2])}
        /\ HasEntryFor(2)
        /\ Upper(args[1]) # Upper(args[2]) => HasEntryFor(1)

\* lowercase input, the first identifier's fetches failed, the second's
\* entry is intact
C4_Witness ==
    /\ Called("compare_stocks")
    /\ args[1] = <<"a">> /\ args[2] = <<"a", "a">>
    /\ IsError(ret.value.comparison[<<"A">>].price_data)
    /\ IsError(ret.value.comparison[<<"A">>].fundamentals)
    /\ ret.value.comparison[<<"A", "A">>].price_data.status = "success"
    /\ ret.value.comparison[<<"A", "A">>].fundamentals.status = "success"

\* the position of the tool's own fundamentals fetch among its requests
FundamentalsFetch ==
    IF Called("generate_investment_report") THEN resps[2] ELSE resps[1]

\* C5 as claimed: a report-style aggregate returns an error envelope exactly
\* when its fundamentals fetch failed.
C5_AbortsExactlyOnFundamentals ==
    (Called("generate_investment_report") \/ Called("investment_checklist_screen")) =>
        (ret.value.status = "error" <=> FetchFailed(FundamentalsFetch))

\* C5 as amended: the checklist returns an error envelope exactly when its
\* fundamentals fetch failed; the report never returns one.
C5_OnlyChecklistAborts ==
    /\ Called("investment_checklist_screen") =>
           (ret.value.status = "error" <=> FetchFailed(resps[1]))
    /\ Called("generate_investment_report") => ret.value.status = "success"

\* a report whose fundamentals fetch failed: success, the failure embedded
C5_Witness ==
    /\ Called("generate_investment_report")
    /\ FetchFailed(resps[2])
    /\ ret.value.status = "success"
    /\ IsError(ret.value.sections.company_overview)

\* the values of the four categories of a checklist
ChecklistValues(checklist) ==
    UNION {{checklist[c][k] : k \in DOMAIN checklist[c]} :
            c \in {"business_quality", "financial_health", "valuation_metrics",
                   "risk_indicators"}}

\* C6: when a fetch other than fundamentals fails, the aggregate returns
\* success and carries the failure as an error envelope of its own: the
\* report in the failed section, the checklist among its values.
C6_SectionFailuresAreEmbedded ==
    /\ (Called("generate_investment_report") /\ ~FetchFailed(resps[2])) =>
           /\ ret.value.status = "success"
           /\ FetchFailed(resps[1]) => IsError(ret.value.sections.price_performance)
           /\ FetchFailed(resps[3]) => IsError(ret.value.sections.income_statement)
           /\ FetchFailed(resps[4]) => IsError(ret.value.sections.balance_sheet)
           /\ FetchFailed(resps[5]) => IsError(ret.value.sections.cash_flow)
           /\ (FetchFailed(resps[6]) \/ FetchFailed(resps[7])) =>
                  IsError(ret.value.sections.valuation_analysis)
    /\ (Called("investment_checklist_screen") /\ ~FetchFailed(resps[1])
            /\ \E i \in 2..8 : FetchFailed(resps[i])) =>
           /\ ret.value.status = "success"
           /\ \E v \in ChecklistValues(ret.value) : IsError(v)

TickerTools ==
    {"investment_checklist_screen", "get_stock_price", "get_stock_fundamentals",
     "compare_stocks", "get_stock_info", "get_income_statement", "get_balance_sheet",
     "get_cash_flow", "calculate_valuation_metrics", "generate_investment_report",
     "calculate_financial_ratios", "analyze_growth_trends"}

IsUpper(ticker) == \A i \in DOMAIN ticker : ticker[i] \notin {"a"}

\* C7: with the same upstream responses a tool returns for an identifier
\* what it returns for its uppercase form, and the identifiers in the
\* envelope (its ticker, the one in its message) are uppercase.
C7_CaseOfIdentifierIsIrrelevant ==
    op \in TickerTools =>
        /\ ret.value = Tool(op, [i \in DOMAIN args |-> Upper(args[i])], resps).value
        /\ "ticker" \in DOMAIN ret.value => IsUpper(ret.value.ticker)
        /\ ("message" \in DOMAIN ret.value /\ "ticker" \in DOMAIN ret.value.message) =>
               IsUpper(ret.value.message.ticker)

\* C8: when GCP_PROJECT_ID or VERTEX_DATA_STORE_ID was unset at start, or the
\* availability flag is off because the client could not be built then,
\* search_investment_research returns info and makes no call to the backend.
C8_UnavailableSearchMakesNoCall ==
    (/\ Called("search_investment_research")
     /\ \/ VERTEX_PROJECT_ID = None
        \/ VERTEX_DATA_STORE_ID = None
        \/ ~vertex_search_available) =>
        /\ ret.kind = "return"
        /\ ret.value.status = "info"
        /\ requests = <<>>

\* both identifiers configured, the client could not be built at start
C8_Witness ==
    /\ Called("search_investment_research")
    /\ VERTEX_PROJECT_ID # None /\ VERTEX_DATA_STORE_ID # None
    /\ ~vertex_search_available
    /\ ret.value.status = "info"
    /\ requests = <<>>

\* the search call of the tool completed with no hits
SearchCompletedEmpty ==
    /\ Called("search_investment_research")
    /\ Len(requests) = 2
    /\ resps[1].kind = "matches" /\ Len(resps[1].matches) = 0

\* C9: a search that completes with zero hits returns success, an empty
\* result list and the message that nothing was found.
C9_NoHitsIsSuccess ==
    SearchCompletedEmpty =>
        /\ ret.value.status = "success"
        /\ ret.value.results = <<>>
        /\ "message" \in DOMAIN ret.value
        /\ ret.value.message.fmt = "No results found for this query."

C9_Witness == SearchCompletedEmpty /\ ret.value.status = "success"

SearchSucceeded ==
    /\ Called("search_investment_research")
    /\ ret.kind = "return" /\ ret.value.status = "success"

ValuationFundamentals == get_stock_fundamentals(args[1], resps[1]).value
ValuationPrice == get_stock_price(args[1], resps[2]).value

\* C11: calculate_valuation_metrics returns an error envelope exactly when
\* the fundamentals fetch or the price fetch returned one; otherwise it
\* returns success and each of its eight figures is the field of the fetched
\* price or fundamentals record, unchanged.
C11_ValuationIsPassthrough ==
    Called("calculate_valuation_metrics") =>
        LET f == ValuationFundamentals
            p == ValuationPrice
        IN  /\ ret.value.status = "error" <=> (IsError(f) \/ IsError(p))
            /\ ret.value.status # "error" =>
                   /\ ret.value.status = "success"
                   /\ ret.value.current_price = p.current_price
                   /\ ret.value.pe_ratio = f.pe_ratio
                   /\ ret.value.market_cap = f.market_cap
                   /\ ret.value.earnings_per_share = f.eps
                   /\ ret.value.price_to_book = f.price_to_book
                   /\ ret.value.peg_ratio = f.peg_ratio
                   /\ ret.value.dividend_yield = f.dividend_yield
                   /\ ret.value.analyst_target = f.analyst_target

\* a valuation of a company whose overview has no P/E: the sentinel and the
\* fetched figures pass through
C11_Witness ==
    /\ Called("calculate_valuation_metrics")
    /\ ret.value.status = "success"
    /\ ret.value.pe_ratio = NA
    /\ ret.value.market_cap # NA
    /\ ret.value.current_price = Flt(11000)

\* the closes of the series get_stock_price received, latest first
PriceCloses == [i \in DOMAIN resps[1].rows |-> resps[1].rows[i].close]

\* get_stock_price received at least two rows whose previous and oldest
\* closes are not zero
PriceChangesDefined ==
    /\ Called("get_stock_price")
    /\ resps[1].kind = "rows"
    /\ Len(resps[1].rows) >= 2
    /\ PriceCloses[2] # 0
    /\ PriceCloses[Len(PriceCloses)] # 0

\* C12: for a series of at least two rows with nonzero previous and oldest
\* closes get_stock_price returns success; change_1day is the latest close
\* minus the previous one and change_1month the latest minus the oldest of
\* the window, the percentages are those differences over the previous and
\* the oldest close times 100, all rounded to 2 decimals; the closes 110,
\* 100, 90 give 10, 10.0, 20 and 22.22.
C12_PriceChanges ==
    PriceChangesDefined =>
        LET c == PriceCloses
            latest == c[1]
            previous == c[2]
            oldest == c[Len(c)]
            v == ret.value
        IN  /\ v.status = "success"
            /\ v.change_1day = Flt(100 * (latest - previous))
            /\ v.change_1day_percent = RoundPct(latest - previous, previous)
            /\ v.change_1month = Flt(100 * (latest - oldest))
            /\ v.change_1month_percent = RoundPct(latest - oldest, oldest)
            /\ c = <<110, 100, 90>> =>
                   /\ v.change_1day = Flt(1000)
                   /\ v.change_1day_percent = Flt(1000)
                   /\ v.change_1month = Flt(2000)
                   /\ v.change_1month_percent = Flt(2222)

\* the series of the example
C12_Witness ==
    /\ PriceChangesDefined
    /\ PriceCloses = <<110, 100, 90>>
    /\ ret.value.change_1month_percent = Flt(2222)

\* the statements calculate_financial_ratios fetched
RatiosBalance == get_balance_sheet(args[1], resps[1]).value
RatiosIncome == get_income_statement(args[1], resps[2]).value

\* the fields are numbers and the denominator is one the division is made for
Numeric(record, fields) == \A k \in fields : CanFloat(record[k])
ValidDenominator(v) == CanFloat(v) /\ Float(v) > 0

\* C13: with numeric statement fields and a valid denominator the liquidity
\* ratios are current_assets, current_assets - cash and cash over
\* current_liabilities, and the margins are net_income, gross_profit and
\* operating_income over total_revenue times 100, each rounded to 2
\* decimals; 500, 250, 100 give 2.0, 1.6, 0.4 and 1000, 100, 400, 150 give
\* 10.0, 40.0, 15.0.
C13_LiquidityAndMargins ==
    BothStatementsFetched =>
        LET b == RatiosBalance
            i == RatiosIncome
            ca == Float(b.current_assets)
            cl == Float(b.current_liabilities)
            cash == Float(b.cash_and_equivalents)
            rev == Float(i.total_revenue)
        IN  /\ ( /\ Numeric(b, {"current_assets", "cash_and_equivalents"})
                 /\ ValidDenominator(b.current_liabilities) ) =>
                   /\ ret.value.liquidity_ratios =
                          [current_ratio |-> Round2(ca, cl),
                           quick_ratio |-> Round2(ca - cash, cl),
                           cash_ratio |-> Round2(cash, cl)]
                   /\ (ca = 50000 /\ cl = 25000 /\ cash = 10000) =>
                          ret.value.liquidity_ratios =
                              [current_ratio |-> Flt(200), quick_ratio |-> Flt(160),
                               cash_ratio |-> Flt(40)]
            /\ ( /\ Numeric(i, {"net_income", "gross_profit", "operating_income"})
                 /\ ValidDenominator(i.total_revenue) ) =>
                   /\ ret.value.profitability_ratios =
                          [net_profit_margin |-> RoundPct(Float(i.net_income), rev),
                           gross_profit_margin |-> RoundPct(Float(i.gross_profit), rev),
                           operating_margin |-> RoundPct(Float(i.operating_income), rev)]
                   /\ ( /\ rev = 100000 /\ Float(i.net_income) = 10000
                        /\ Float(i.gross_profit) = 40000
                        /\ Float(i.operating_income) = 15000 ) =>
                          ret.value.profitability_ratios =
                              [net_profit_margin |-> Flt(1000),
                               gross_profit_margin |-> Flt(4000),
                               operating_margin |-> Flt(1500)]

\* the statements of the two examples
C13_Witness ==
    /\ BothStatementsFetched
    /\ RatiosBalance.current_assets = Str("500")
    /\ RatiosBalance.current_liabilities = Str("250")
    /\ RatiosBalance.cash_and_equivalents = Str("100")
    /\ RatiosIncome.total_revenue = Str("1000")
    /\ RatiosIncome.net_income = Str("100")
    /\ ret.value.liquidity_ratios =
           [current_ratio |-> Flt(200), quick_ratio |-> Flt(160), cash_ratio |-> Flt(40)]
    /\ ret.value.profitability_ratios =
           [net_profit_margin |-> Flt(1000), gross_profit_margin |-> Flt(4000),
            operating_margin |-> Flt(1500)]

\* the field list of each FundamentalData adapter
AdapterFields ==
    [get_stock_fundamentals |-> get_stock_fundamentals_fields,
     get_income_statement |-> get_income_statement_fields,
     get_balance_sheet |-> get_balance_sheet_fields,
     get_cash_flow |-> get_cash_flow_fields]

\* some key of keys is absent from the upstream row
Lacks(row, keys) == \E k \in keys : k \notin DOMAIN row

LiquidityKeys ==
    {"totalCurrentAssets", "totalCurrentLiabilities", "cashAndCashEquivalentsAtCarryingValue"}
LeverageKeys == {"totalAssets", "totalLiabilities", "totalShareholderEquity", "longTermDebt"}

\* <<output field, overview key>> of calculate_valuation_metrics
ValuationSources ==
    {<<"pe_ratio", "PERatio">>, <<"market_cap", "MarketCapitalization">>,
     <<"earnings_per_share", "EPS">>, <<"price_to_book", "PriceToBookRatio">>,
     <<"peg_ratio", "PEGRatio">>, <<"dividend_yield", "DividendYield">>,
     <<"analyst_target", "AnalystTargetPrice">>}

\* <<category, field, overview key>> of investment_checklist_screen
ChecklistOverviewSources ==
    {<<"business_quality", "market_cap", "MarketCapitalization">>,
     <<"business_quality", "sector", "Sector">>,
     <<"business_quality", "industry", "Industry">>,
     <<"valuation_metrics", "peg_ratio", "PEGRatio">>,
     <<"valuation_metrics", "pe_ratio", "PERatio">>,
     <<"valuation_metrics", "forward_pe", "ForwardPE">>,
     <<"valuation_metrics", "price_to_book", "PriceToBookRatio">>,
     <<"valuation_metrics", "analyst_target", "AnalystTargetPrice">>,
     <<"valuation_metrics", "52_week_high", "52WeekHigh">>,
     <<"valuation_metrics", "52_week_low", "52WeekLow">>,
     <<"risk_indicators", "beta", "Beta">>,
     <<"risk_indicators", "dividend_yield", "DividendYield">>,
     <<"risk_indicators", "revenue_growth_yoy", "QuarterlyRevenueGrowthYOY">>,
     <<"risk_indicators", "earnings_per_share", "EPS">>}

\* <<field, cash-flow key>> of investment_checklist_screen
ChecklistCashFlowSources ==
    {<<"operating_cash_flow", "operatingCashflow">>,
     <<"free_cash_flow", "operatingCashflow">>,
     <<"capital_expenditures", "capitalExpenditures">>}

AbsentInAdapters ==
    \A name \in DOMAIN AdapterFields :
        (Called(name) /\ ~FetchFailed(resps[1])) =>
            \A f \in AdapterFields[name] :
                f[2] \notin DOMAIN resps[1].rows[1] => ret.value[f[1]] = NA

AbsentInRatios ==
    BothStatementsFetched =>
        /\ Lacks(resps[1].rows[1], LiquidityKeys) =>
               ret.value.liquidity_ratios = insufficient
        /\ Lacks(resps[2].rows[1], IncomeRatioKeys) =>
               ret.value.profitability_ratios = insufficient
        /\ Lacks(resps[1].rows[1], LeverageKeys) =>
               ret.value.leverage_ratios = insufficient

AbsentInValuation ==
    (Called("calculate_valuation_metrics") /\ ret.value.status = "success") =>
        /\ \A s \in ValuationSources :
               s[2] \notin DOMAIN resps[1].rows[1] => ret.value[s[1]] = NA
        /\ ret.value.current_price = ValuationPrice.current_price

AbsentInGrowth ==
    (Called("analyze_growth_trends") /\ ret.value.status = "success") =>
        LET row == resps[1].rows[1]
        IN  /\ "QuarterlyRevenueGrowthYOY" \notin DOMAIN row => ret.value.revenue_growth = NA
            /\ "PEGRatio" \notin DOMAIN row => ret.value.valuation_metrics.peg_ratio = NA
            /\ "ForwardPE" \notin DOMAIN row => ret.value.valuation_metrics.forward_pe = NA
            /\ IsError(get_stock_price(args[1], resps[2]).value) =>
                   /\ ret.value.price_momentum["1_day_change"] = NA
                   /\ ret.value.price_momentum["1_month_change"] = NA

AbsentInChecklist ==
    (Called("investment_checklist_screen") /\ ret.value.status = "success") =>
        /\ "Name" \notin DOMAIN resps[1].rows[1] => ret.value.company_name = NA
        /\ \A s \in ChecklistOverviewSources :
               s[3] \notin DOMAIN resps[1].rows[1] => ret.value[s[1]][s[2]] = NA
        /\ \A s \in ChecklistCashFlowSources :
               (~FetchFailed(resps[4]) /\ s[2] \notin DOMAIN resps[4].rows[1]) =>
                   ret.value.financial_health[s[1]] = NA
        /\ (~FetchFailed(resps[5]) /\ ~FetchFailed(resps[6])) =>
               /\ Lacks(resps[5].rows[1], LiquidityKeys) =>
                      \A k \in {"current_ratio", "quick_ratio", "cash_ratio"} :
                          ret.value.financial_health[k] = NA
               /\ Lacks(resps[5].rows[1], LeverageKeys) =>
                      \A k \in {"debt_to_equity", "debt_to_assets", "equity_multiplier"} :
                          ret.value.financial_health[k] = NA
               /\ Lacks(resps[6].rows[1], IncomeRatioKeys) =>
                      \A k \in {"net_profit_margin", "gross_profit_margin",
                                "operating_margin"} :
                          ret.value.business_quality[k] = NA

\* C14: a value absent from the upstream row never becomes zero or a default
\* number: the four statement adapters put the sentinel 'N/A' in its field,
\* calculate_financial_ratios replaces the group that needs it by the note,
\* and calculate_valuation_metrics, analyze_growth_trends and
\* investment_checklist_screen show 'N/A' for it; the numeric defaults of
\* their get(...) calls reach no output.
C14_AbsentIsNeverANumber ==
    /\ AbsentInAdapters
    /\ AbsentInRatios
    /\ AbsentInValuation
    /\ AbsentInGrowth
    /\ AbsentInChecklist

\* a checklist over a balance sheet without current liabilities and a cash
\* flow statement without its figures
C14_Witness ==
    /\ Called("investment_checklist_screen")
    /\ ret.value.status = "success"
    /\ ~FetchFailed(resps[4]) /\ ~FetchFailed(resps[5]) /\ ~FetchFailed(resps[6])
    /\ "totalCurrentLiabilities" \notin DOMAIN resps[5].rows[1]
    /\ "operatingCashflow" \notin DOMAIN resps[4].rows[1]
    /\ ret.value.financial_health.current_ratio = NA
    /\ ret.value.financial_health.operating_cash_flow = NA

\* the provider call behind each kind of fetch
ApiOf ==
    [price |-> "get_daily", overview |-> "get_company_overview",
     income |-> "get_income_statement_annual", balance |-> "get_balance_sheet_annual",
     cash_flow |-> "get_cash_flow_annual"]

\* the requests for the fetches kinds, in that order, for ticker t
RequestsFor(kinds, t) == [i \in DOMAIN kinds |-> Request(ApiOf[kinds[i]], t)]

\* C15: whichever of its fetches fail, generate_investment_report issues
\* exactly 7 upstream requests in the order price, overview, income, balance,
\* cash flow, overview, price, and investment_checklist_screen exactly 8 in
\* the order overview, balance, income, cash flow, balance, income, overview,
\* price, one after another.
C15_AllFetchesInFixedOrder ==
    /\ Called("generate_investment_report") =>
           requests = RequestsFor(<<"price", "overview", "income", "balance", "cash_flow",
                                    "overview", "price">>, args[1])
    /\ Called("investment_checklist_screen") =>
           requests = RequestsFor(<<"overview", "balance", "income", "cash_flow", "balance",
                                    "income", "overview", "price">>, args[1])

\* a checklist that aborted on its fundamentals, and a later fetch failed too
C15_Witness ==
    /\ Called("investment_checklist_screen")
    /\ FetchFailed(resps[1])
    /\ FetchFailed(resps[3])
    /\ ret.value.status = "error"
    /\ Len(requests) = 8

\* the balance-sheet fields the leverage block converts to numbers
LeverageOperands ==
    {"total_assets", "total_liabilities", "total_shareholder_equity", "long_term_debt"}

\* C16: with numeric balance-sheet operands, debt_to_assets is present
\* exactly when total_assets is nonzero, and debt_to_equity and
\* equity_multiplier are present exactly when total_shareholder_equity is
\* nonzero, negative denominators included.
C16_LeverageGuardedByNonzero ==
    (BothStatementsFetched /\ Numeric(RatiosBalance, LeverageOperands)) =>
        LET b == RatiosBalance
            leverage == ret.value.leverage_ratios
        IN  /\ "debt_to_assets" \in DOMAIN leverage <=> Float(b.total_assets) # 0
            /\ "debt_to_equity" \in DOMAIN leverage <=>
                   Float(b.total_shareholder_equity) # 0
            /\ "equity_multiplier" \in DOMAIN leverage <=>
                   Float(b.total_shareholder_equity) # 0

\* C17: leverage_ratios is the single note exactly when total_assets,
\* total_liabilities or total_shareholder_equity is missing or not a number;
\* a field no leverage ratio uses, such as long_term_debt, has no effect on
\* the group.
C17_LeverageNoteOnlyForItsOperands ==
    BothStatementsFetched =>
        ( ret.value.leverage_ratios = insufficient
          <=> ~Numeric(RatiosBalance,
                       {"total_assets", "total_liabilities", "total_shareholder_equity"}) )

\* the provider call of each of the five data-source adapters
AdapterApi ==
    [get_stock_price |-> "get_daily",
     get_stock_fundamentals |-> "get_company_overview",
     get_income_statement |-> "get_income_statement_annual",
     get_balance_sheet |-> "get_balance_sheet_annual",
     get_cash_flow |-> "get_cash_flow_annual"]

\* C18: an invocation of a data-source adapter issues exactly one upstream
\* request; if that request raises or brings no rows the adapter returns an
\* error envelope at once, without a second request, and a failure leaves
\* nothing behind: whatever was called before, an invocation of a statement
\* adapter whose request brings a row succeeds.
C18_OneRequestNoRetryNoCache ==
    \A name \in DOMAIN AdapterApi :
        Called(name) =>
            /\ requests = <<Request(AdapterApi[name], args[1])>>
            /\ ret.kind = "return"
            /\ FetchFailed(resps[1]) => IsError(ret.value)
            /\ (~FetchFailed(resps[1]) /\ name # "get_stock_price") =>
                   ret.value.status = "success"
            /\ ret.value = Tool(name, args, resps).value

\* the income statement request raised
C18_Witness ==
    /\ Called("get_income_statement")
    /\ resps[1].kind = "raise"
    /\ IsError(ret.value)
    /\ Len(requests) = 1

\* the completion of the call in progress is the one its arguments, the
\* configuration and the upstream responses it received determine
ResultIsDetermined == op # "none" => ret.value = Tool(op, args, resps).value

\* C19: no tool invocation, whatever its outcome, changes the availability
\* flag or the search configuration set at process start, and the result of
\* an invocation depends only on its arguments, that configuration and the
\* upstream responses it receives.
C19_ConfigurationIsReadOnly ==
    /\ [][config' = config]_vars
    /\ []ResultIsDetermined

\* a search that ended in error with the search still available
C19_Witness ==
    /\ Called("search_investment_research")
    /\ ret.value.status = "error"
    /\ vertex_search_available
    /\ Len(requests) > 0

\* the records investment_checklist_screen regroups
ChecklistFundamentals == get_stock_fundamentals(args[1], resps[1]).value
ChecklistCashFlow == get_cash_flow(args[1], resps[4]).value
ChecklistRatios == calculate_financial_ratios(args[1], SubSeq(resps, 5, 6)).value

\* the field of the record, or 'N/A' when the record does not carry it
FieldOf(record, field) == IF field \in DOMAIN record THEN record[field] ELSE NA

\* the ratio of a group of the ratios record, or 'N/A'
RatioOf(group, ratio) ==
    IF group \in DOMAIN ChecklistRatios
    THEN FieldOf(ChecklistRatios[group], ratio) ELSE NA

ChecklistSucceeded ==
    Called("investment_checklist_screen") /\ ret.value.status = "success"

\* C20: every success envelope of investment_checklist_screen has the same
\* 6, 9, 7 and 4 keys in business_quality, financial_health,
\* valuation_metrics and risk_indicators, whichever of the other fetches
\* failed, and each value is the field of the fetched fundamentals, ratios or
\* cash-flow record, or 'N/A' when the record does not carry it.
C20_ChecklistIsAFixedRegrouping ==
    ChecklistSucceeded =>
        LET f == ChecklistFundamentals
            c == ChecklistCashFlow
            v == ret.value
        IN  /\ v.business_quality =
                   [net_profit_margin |-> RatioOf("profitability_ratios", "net_profit_margin"),
                    gross_profit_margin |->
                        RatioOf("profitability_ratios", "gross_profit_margin"),
                    operating_margin |-> RatioOf("profitability_ratios", "operating_margin"),
                    market_cap |-> FieldOf(f, "market_cap"),
                    sector |-> FieldOf(f, "sector"),
                    industry |-> FieldOf(f, "industry")]
            /\ Cardinality(DOMAIN v.business_quality) = 6
            /\ v.financial_health =
                   [debt_to_equity |-> RatioOf("leverage_ratios", "debt_to_equity"),
                    debt_to_assets |-> RatioOf("leverage_ratios", "debt_to_assets"),
                    equity_multiplier |-> RatioOf("leverage_ratios", "equity_multiplier"),
                    current_ratio |-> RatioOf("liquidity_ratios", "current_ratio"),
                    quick_ratio |-> RatioOf("liquidity_ratios", "quick_ratio"),
                    cash_ratio |-> RatioOf("liquidity_ratios", "cash_ratio"),
                    operating_cash_flow |-> FieldOf(c, "operating_cash_flow"),
                    free_cash_flow |-> FieldOf(c, "free_cash_flow"),
                    capital_expenditures |-> FieldOf(c, "capital_expenditures")]
            /\ Cardinality(DOMAIN v.financial_health) = 9
            /\ v.valuation_metrics =
                   [peg_ratio |-> FieldOf(f, "peg_ratio"),
                    pe_ratio |-> FieldOf(f, "pe_ratio"),
                    forward_pe |-> FieldOf(f, "forward_pe"),
                    price_to_book |-> FieldOf(f, "price_to_book"),
                    analyst_target |-> FieldOf(f, "analyst_target")]
                   @@ ("52_week_high" :> FieldOf(f, "52_week_high"))
                   @@ ("52_week_low" :> FieldOf(f, "52_week_low"))
            /\ Cardinality(DOMAIN v.valuation_metrics) = 7
            /\ v.risk_indicators =
                   [beta |-> FieldOf(f, "beta"),
                    dividend_yield |-> FieldOf(f, "dividend_yield"),
                    revenue_growth_yoy |-> FieldOf(f, "revenue_growth"),
                    earnings_per_share |-> FieldOf(f, "eps")]
            /\ Cardinality(DOMAIN v.risk_indicators) = 4

\* a checklist whose ratios and cash-flow fetches failed
C20_Witness ==
    /\ ChecklistSucceeded
    /\ FetchFailed(resps[4]) /\ FetchFailed(resps[5])
    /\ ret.value.financial_health.current_ratio = NA
    /\ ret.value.financial_health.free_cash_flow = NA
    /\ ret.value.business_quality.market_cap # NA

RatioGroups == {"liquidity_ratios", "profitability_ratios", "leverage_ratios"}

\* C21: calculate_financial_ratios always fetches the balance sheet and then
\* the income statement; it returns an error envelope without ratio groups
\* exactly when one of the two fetches returned an error envelope, and
\* otherwise success with the three group keys, whatever the denominators
\* are.
C21_RatiosFailOnlyOnFetchErrors ==
    Called("calculate_financial_ratios") =>
        LET failed == IsError(RatiosBalance) \/ IsError(RatiosIncome)
        IN  /\ requests = RequestsFor(<<"balance", "income">>, args[1])
            /\ ret.value.status = "error" <=> failed
            /\ failed => DOMAIN ret.value \cap RatioGroups = {}
            /\ ~failed =>
                   /\ ret.value.status = "success"
                   /\ RatioGroups \subseteq DOMAIN ret.value

\* zero current liabilities and an income statement without revenue: the
\* status is success and the two groups are empty and the note
C21_Witness ==
    /\ BothStatementsFetched
    /\ RatiosBalance.current_liabilities = Str("0")
    /\ RatiosIncome.total_revenue = NA
    /\ ret.value.status = "success"
    /\ DOMAIN ret.value.liquidity_ratios = {}
    /\ ret.value.profitability_ratios = insufficient

\* the two records analyze_growth_trends fetched
GrowthFundamentals == get_stock_fundamentals(args[1], resps[1]).value
GrowthPrice == get_stock_price(args[1], resps[2]).value

\* C22: analyze_growth_trends always fetches fundamentals and then price; it
\* returns an error envelope exactly when the fundamentals fetch failed; when
\* only the price fetch failed it returns success with 1_day_change and
\* 1_month_change equal to 'N/A' and revenue_growth, peg_ratio and
\* forward_pe as fetched.
C22_GrowthFailsOnlyOnFundamentals ==
    Called("analyze_growth_trends") =>
        LET f == GrowthFundamentals
            p == GrowthPrice
            v == ret.value
        IN  /\ requests = RequestsFor(<<"overview", "price">>, args[1])
            /\ v.status = "error" <=> IsError(f)
            /\ ~IsError(f) =>
                   /\ v.status = "success"
                   /\ v.revenue_growth = f.revenue_growth
                   /\ v.valuation_metrics =
                          [peg_ratio |-> f.peg_ratio, forward_pe |-> f.forward_pe]
                   /\ DOMAIN v.price_momentum = {"1_day_change", "1_month_change"}
                   /\ IsError(p) =>
                          /\ v.price_momentum["1_day_change"] = NA
                          /\ v.price_momentum["1_month_change"] = NA
                   /\ ~IsError(p) =>
                          /\ v.price_momentum["1_day_change"] = p.change_1day_percent
                          /\ v.price_momentum["1_month_change"] = p.change_1month_percent

\* only the price fetch failed
C22_Witness ==
    /\ Called("analyze_growth_trends")
    /\ ~FetchFailed(resps[1]) /\ FetchFailed(resps[2])
    /\ ret.value.status = "success"
    /\ ret.value.price_momentum["1_day_change"] = NA
    /\ ret.value.revenue_growth # NA
====
